---- MODULE Spec2Model ----
(***************************************************************************)
(* clean_gps_route (py/gps_cleaner.py): simplification of a raw GPS trace  *)
(* into key waypoints by exponential expansion and binary search over      *)
(* routed segments.  Python list indices are kept 0-based; At(s, i) reads  *)
(* the Python element s[i] of a TLA+ sequence.                             *)
(*                                                                         *)
(* The routing engine (the forwardRouting callable) is the environment.    *)
(* Each call is answered with a response chosen by the engine, whose       *)
(* behaviour is fixed for a run by `engine`:                               *)
(*   "flaky"       every call is answered afresh, with any response,       *)
(*                 malformed transport responses included;                 *)
(*   "stable"      any response, but the same pair is answered the same    *)
(*                 way every time;                                         *)
(*   "valid"       stable; every pair routes within the threshold          *)
(*                 (Scenarios 2 and 5 of the specification);               *)
(*   "unroutable"  stable; every pair containing raw index Unroutable      *)
(*                 fails, every other pair routes within the threshold     *)
(*                 (Scenario 4);                                           *)
(*   "deviant"     stable; every pair routes, and the fix at raw index     *)
(*                 Deviant is FarMetres off every route that spans it      *)
(*                 (Scenario 3).                                           *)
(* A stable engine's answers are recorded in `answers`, by probed index,   *)
(* for the pairs that start at the current anchor.  Every call of the      *)
(* program starts at the current anchor, so the record is cleared when     *)
(* the anchor moves.                                                       *)
(*                                                                         *)
(* validate_segment measures, with shapely and the haversine formula, the  *)
(* ground distance between each intermediate raw fix and the routed line.  *)
(* That distance is a property of the returned geometry; the model carries *)
(* it with the geometry as `dist` (metres per intermediate raw index) and  *)
(* keeps the comparison with the threshold as the code makes it.           *)
(***************************************************************************)
EXTENDS Integers, Sequences, FiniteSets, TLC

\* Longest raw trace explored.
MaxLen == 6

\* deviation_threshold default, in metres.
DefaultThreshold == 500
\* The thresholds a caller passes: the default, and Scenario 5's huge value.
Thresholds == {DefaultThreshold, 10000000}
\* Ground distance of a raw fix to a routed line: exactly at the default
\* threshold, or 2000 m off (Scenario 3).
FarMetres == 4 * DefaultThreshold
Metres == {DefaultThreshold, FarMetres}
\* Scenario 4: the raw index no route reaches (the third point).
Unroutable == 3 - 1
\* Scenario 3: the raw index of the deviating fix (the fourth point).
Deviant == 4 - 1

VARIABLES
    raw_waypoints,          \* input: sequence of [lat, lng] records
    deviation_threshold,    \* input
    engine,                 \* environment: the engine's behaviour
    answers,                \* environment: answers to the current anchor's pairs
    pc,                     \* position in clean_gps_route
    key_waypoints_coords,   \* list of <<lng, lat>>
    key_idx,                \* raw index of each entry of key_waypoints_coords
    final_route_coords,     \* list of <<lng, lat>>
    last_anchor_idx,
    lower_bound_idx,
    upper_bound_idx,
    probe_step,
    best_next_idx,
    calls,                  \* routing calls issued so far
    search_calls,           \* routing calls of the current outer iteration, commit excluded
    segments,               \* committed <<anchor, best>> pairs, in order
    polylines,              \* the routed polyline of each committed segment
    skipped,                \* anchors left by the single-point fallback
    transport,              \* shape of the response to the latest routing call
    accepted,               \* indices whose probe from the current anchor was accepted
    result                  \* the returned dictionary

vars == <<raw_waypoints, deviation_threshold, engine, answers, pc,
          key_waypoints_coords, key_idx, final_route_coords, last_anchor_idx,
          lower_bound_idx, upper_bound_idx, probe_step, best_next_idx, calls,
          search_calls, segments, polylines, skipped, transport, accepted,
          result>>

At(s, i) == s[i + 1]
Last(s) == s[Len(s)]
ButLast(s) == IF Len(s) = 0 THEN s ELSE SubSeq(s, 1, Len(s) - 1)

\* The i-th raw fix of a trace: all fixes are distinct points.
RawPoint(i) == [lat |-> 40 + i, lng |-> i]
Trace(n) == [k \in 1..n |-> RawPoint(k - 1)]

\* [wp["lng"], wp["lat"]]
Coord(wp) == <<wp.lng, wp.lat>>
\* {"lat": coord[1], "lng": coord[0]}
PointOf(coord) == [lat |-> coord[2], lng |-> coord[1]]
\* Where the engine snaps a coordinate onto its network.
Snap(coord) == <<coord[1] + 100, coord[2]>>

total_points == Len(raw_waypoints)
Intermediate(a, j) == (a + 1)..(j - 1)

\* ---------------------------------------------------------------- engine
NoAnswer == [code |-> "Unasked"]
Unasked == [j \in 0..(MaxLen - 1) |-> NoAnswer]
Engines == {"flaky", "stable", "valid", "unroutable", "deviant"}

Geometries(a, j) ==
    LET s == Coord(At(raw_waypoints, a))
        e == Coord(At(raw_waypoints, j))
    IN  {<<s, e>>, <<Snap(s), Snap(e)>>}

Dists(a, j) == [Intermediate(a, j) -> Metres]
Near(a, j) == [i \in Intermediate(a, j) |-> DefaultThreshold]

Routes(a, j, ds) ==
    {[code |-> "Ok", geometry |-> g, dist |-> d] : g \in Geometries(a, j), d \in ds}

\* Transport responses that do not have the expected shape: an object that is
\* neither a flask Response nor a str, a body that is not JSON, a JSON object
\* without "code", and an "Ok" object without routes[0].geometry.
UnsupportedType == [pytype |-> "dict"]
NotJson == [text |-> "<html>"]
NoStatus == [message |-> "x"]
NoGeometry == [code |-> "Ok"]
Malformed == {UnsupportedType, NotJson, NoStatus, NoGeometry}

\* Every response the engine may give to route/v1/<profile>/<a>;<j>.
Responses(a, j) ==
    CASE engine = "flaky" ->
            {[code |-> "NoRoute"],
             [code |-> "Ok", geometry |-> <<>>, dist |-> Near(a, j)]}
            \cup Routes(a, j, Dists(a, j))
            \cup Malformed
      [] engine = "stable" ->
            {[code |-> "NoRoute"],
             [code |-> "Ok", geometry |-> <<>>, dist |-> Near(a, j)]}
            \cup Routes(a, j, Dists(a, j))
      [] engine = "valid" -> Routes(a, j, {Near(a, j)})
      [] engine = "unroutable" ->
            IF Unroutable \in {a, j}
            THEN {[code |-> "NoRoute"]}
            ELSE Routes(a, j, {Near(a, j)})
      [] engine = "deviant" ->
            Routes(a, j, {[i \in Intermediate(a, j) |->
                             IF i = Deviant THEN FarMetres ELSE DefaultThreshold]})

\* The shape of a transport response, as the engine produced it.
Shape(resp) ==
    CASE resp = UnsupportedType -> "unsupported type"
      [] resp = NotJson -> "not json"
      [] resp = NoStatus -> "no status"
      [] resp = NoGeometry -> "no geometry"
      [] OTHER -> "well formed"

Allowed(a, j) ==
    IF engine # "flaky" /\ answers[j] # NoAnswer
    THEN {answers[j]}
    ELSE Responses(a, j)

\* An engine that keeps no memory of the answers it gave.
RecordNothing(j, resp) == answers
Record(j, resp) ==
    IF engine # "flaky" THEN [answers EXCEPT ![j] = resp] ELSE answers

\* ---------------------------------------------------------------- helpers
None == [none |-> TRUE]

\* Line 19 accepting a one-point trace.
TooShortOffByOne(n) == n < 1
\* Line 19.
TooShort(n) == n < 2
\* Line 32.
LoopRuns(anchor, n) == anchor < n - 1
\* Line 45 clamping one probe early.
PastEndOffByOne(probe, n) == probe >= n - 1
\* Line 45.
PastEnd(probe, n) == probe >= n
\* Line 60 without the doubling.
NextStepLinear(step) == step + 1
\* Line 60.
NextStep(step) == step * 2
\* Line 62 starting from the index at which the expansion stopped.
BestAfterExpansionUpper(lo, hi) == hi
\* Line 62.
BestAfterExpansion(lo, hi) == lo
\* Line 63 as a strict comparison, which leaves index hi untested.
SearchOpenStrict(lo, hi) == lo < hi
\* Line 63.
SearchOpen(lo, hi) == lo <= hi
\* Line 64.
MidIdx(lo, hi) == (lo + hi) \div 2
\* Line 65 with the guard one index too wide.
DegenerateOffByOne(mid, anchor) == mid <= anchor + 1
\* Line 65.
Degenerate(mid, anchor) == mid <= anchor
\* Line 80 as a strict comparison, which commits a segment anchor -> anchor.
NoSegmentFoundStrict(best, anchor) == best < anchor
\* Line 80 giving up one index too early.
NoSegmentFoundOffByOne(best, anchor) == best <= anchor + 1
\* Line 80.
NoSegmentFound(best, anchor) == best <= anchor
\* Line 107.
RerouteCount(waypoints) == Len(waypoints) - 2

\* An exception that leaves get_route_via_forward_routing.
Raise(exception) == [raised |-> exception]
IsRaise(value) == "raised" \in DOMAIN value

\* get_route_via_forward_routing answering None to whatever is not a route.
get_route_via_forward_routingLenient(resp) ==
    IF "code" \in DOMAIN resp /\ "geometry" \in DOMAIN resp /\ resp.code = "Ok"
    THEN [none |-> FALSE, route_coords |-> resp.geometry, dist |-> resp.dist]
    ELSE None

get_route_via_forward_routing(resp) ==
    CASE "pytype" \in DOMAIN resp -> Raise("TypeError")
      [] "text" \in DOMAIN resp -> Raise("JSONDecodeError")
      [] "code" \notin DOMAIN resp -> Raise("KeyError")
      [] OTHER ->
            IF resp.code # "Ok"
            THEN None
            ELSE IF "geometry" \notin DOMAIN resp
            THEN Raise("KeyError")
            ELSE [none |-> FALSE, route_coords |-> resp.geometry,
                  dist |-> resp.dist]

\* Python truth value of segment_coords: None and [] are false.
Truthy(segment_coords) ==
    IF segment_coords.none THEN FALSE ELSE segment_coords.route_coords # <<>>

\* validate_segment without the comparison of line 128.
validate_segmentAnyDistance(segment_coords, intermediate_points, threshold) ==
    TRUE

validate_segment(segment_coords, intermediate_points, threshold) ==
    IF intermediate_points = {}
    THEN TRUE
    ELSE \A p \in intermediate_points : ~(segment_coords.dist[p] > threshold)

Accepted(segment_coords, a, j) ==
    Truthy(segment_coords)
    /\ validate_segment(segment_coords, Intermediate(a, j), deviation_threshold)

\* ---------------------------------------------------------------- state
Pending == [pending |-> TRUE]

Init ==
    /\ raw_waypoints \in {Trace(n) : n \in 0..MaxLen}
    /\ deviation_threshold \in Thresholds
    /\ engine \in Engines
    /\ answers = Unasked
    /\ pc = "entry"
    /\ key_waypoints_coords = <<>>
    /\ key_idx = <<>>
    /\ final_route_coords = <<>>
    /\ last_anchor_idx = 0
    /\ lower_bound_idx = 0
    /\ upper_bound_idx = -1
    /\ probe_step = 1
    /\ best_next_idx = 0
    /\ calls = 0
    /\ search_calls = 0
    /\ segments = <<>>
    /\ polylines = <<>>
    /\ skipped = {}
    /\ transport = "none"
    /\ accepted = {}
    /\ result = Pending

\* Lines 19-30: the length check and the initial lists.
Entry ==
    /\ pc = "entry"
    /\ IF TooShort(total_points)
       THEN /\ result' = [success |-> FALSE, error |-> "Need at least 2 waypoints"]
            /\ pc' = "done"
            /\ UNCHANGED <<key_waypoints_coords, key_idx>>
       ELSE /\ key_waypoints_coords' = <<Coord(At(raw_waypoints, 0))>>
            /\ key_idx' = <<0>>
            /\ pc' = "outer"
            /\ UNCHANGED result
    /\ UNCHANGED <<accepted, transport, raw_waypoints, deviation_threshold, engine, answers,
                   final_route_coords, last_anchor_idx, lower_bound_idx,
                   upper_bound_idx, probe_step, best_next_idx, calls,
                   search_calls, segments, polylines, skipped>>

\* Lines 32-41: the outer loop is entered and the search window reset.
OuterEnter ==
    /\ pc = "outer"
    /\ LoopRuns(last_anchor_idx, total_points)
    /\ lower_bound_idx' = last_anchor_idx
    /\ upper_bound_idx' = -1
    /\ probe_step' = 1
    /\ search_calls' = 0
    /\ pc' = "expand"
    /\ UNCHANGED <<accepted, transport, raw_waypoints, deviation_threshold, engine, answers,
                   key_waypoints_coords, key_idx, final_route_coords,
                   last_anchor_idx, best_next_idx, calls, segments, polylines, skipped,
                   result>>

\* Lines 44-47: the probe runs past the end of the trace.
ExpandClamp ==
    /\ pc = "expand"
    /\ PastEnd(last_anchor_idx + probe_step, total_points)
    /\ upper_bound_idx' = total_points - 1
    /\ best_next_idx' = BestAfterExpansion(lower_bound_idx, total_points - 1)
    /\ pc' = "search"
    /\ UNCHANGED <<accepted, transport, raw_waypoints, deviation_threshold, engine, answers,
                   key_waypoints_coords, key_idx, final_route_coords,
                   last_anchor_idx, lower_bound_idx, probe_step, calls,
                   search_calls, segments, polylines, skipped, result>>

\* Lines 49-60: one probe of the expansion phase.
ExpandProbe ==
    /\ pc = "expand"
    /\ LET probe_idx == last_anchor_idx + probe_step IN
       /\ ~PastEnd(probe_idx, total_points)
       /\ \E resp \in Allowed(last_anchor_idx, probe_idx) :
            LET segment_coords == get_route_via_forward_routing(resp) IN
            /\ answers' = Record(probe_idx, resp)
            /\ transport' = Shape(resp)
            /\ calls' = calls + 1
            /\ search_calls' = search_calls + 1
            /\ IF IsRaise(segment_coords)
               THEN /\ pc' = "raised"
                    /\ result' = segment_coords
                    /\ UNCHANGED <<lower_bound_idx, upper_bound_idx,
                                   best_next_idx, probe_step, accepted>>
               ELSE IF ~Accepted(segment_coords, last_anchor_idx, probe_idx)
               THEN /\ upper_bound_idx' = probe_idx
                    /\ best_next_idx' = BestAfterExpansion(lower_bound_idx, probe_idx)
                    /\ pc' = "search"
                    /\ UNCHANGED <<lower_bound_idx, probe_step, result, accepted>>
               ELSE /\ lower_bound_idx' = probe_idx
                    /\ probe_step' = NextStep(probe_step)
                    /\ accepted' = accepted \cup {probe_idx}
                    /\ UNCHANGED <<upper_bound_idx, best_next_idx, pc, result>>
    /\ UNCHANGED <<raw_waypoints, deviation_threshold, engine,
                   key_waypoints_coords, key_idx, final_route_coords,
                   last_anchor_idx, segments, polylines, skipped>>

\* Lines 63-78: one iteration of the binary search.
SearchProbe ==
    /\ pc = "search"
    /\ SearchOpen(lower_bound_idx, upper_bound_idx)
    /\ LET mid_idx == MidIdx(lower_bound_idx, upper_bound_idx) IN
       /\ ~Degenerate(mid_idx, last_anchor_idx)
       /\ \E resp \in Allowed(last_anchor_idx, mid_idx) :
            LET segment_coords == get_route_via_forward_routing(resp) IN
            /\ answers' = Record(mid_idx, resp)
            /\ transport' = Shape(resp)
            /\ calls' = calls + 1
            /\ search_calls' = search_calls + 1
            /\ IF IsRaise(segment_coords)
               THEN /\ pc' = "raised"
                    /\ result' = segment_coords
                    /\ UNCHANGED <<lower_bound_idx, upper_bound_idx,
                                   best_next_idx, accepted>>
               ELSE IF Accepted(segment_coords, last_anchor_idx, mid_idx)
               THEN /\ best_next_idx' = mid_idx
                    /\ lower_bound_idx' = mid_idx + 1
                    /\ accepted' = accepted \cup {mid_idx}
                    /\ UNCHANGED <<upper_bound_idx, pc, result>>
               ELSE /\ upper_bound_idx' = mid_idx - 1
                    /\ UNCHANGED <<best_next_idx, lower_bound_idx, pc, result,
                                   accepted>>
    /\ UNCHANGED <<raw_waypoints, deviation_threshold, engine,
                   key_waypoints_coords, key_idx, final_route_coords,
                   last_anchor_idx, probe_step, segments, polylines, skipped>>

\* Lines 63-66: the binary search ends, by its condition or by the break.
SearchExit ==
    /\ pc = "search"
    /\ \/ ~SearchOpen(lower_bound_idx, upper_bound_idx)
       \/ Degenerate(MidIdx(lower_bound_idx, upper_bound_idx), last_anchor_idx)
    /\ pc' = "decide"
    /\ UNCHANGED <<accepted, transport, raw_waypoints, deviation_threshold, engine, answers,
                   key_waypoints_coords, key_idx, final_route_coords,
                   last_anchor_idx, lower_bound_idx, upper_bound_idx,
                   probe_step, best_next_idx, calls, search_calls, segments, polylines,
                   skipped, result>>

\* Lines 80-83: no segment found from the anchor, skip one raw point.
Skip ==
    /\ pc = "decide"
    /\ NoSegmentFound(best_next_idx, last_anchor_idx)
    /\ skipped' = skipped \cup {last_anchor_idx}
    /\ last_anchor_idx' = last_anchor_idx + 1
    /\ answers' = Unasked
    /\ accepted' = {}
    /\ pc' = "outer"
    /\ UNCHANGED <<transport, raw_waypoints, deviation_threshold, engine,
                   key_waypoints_coords, key_idx, final_route_coords,
                   lower_bound_idx, upper_bound_idx, probe_step, best_next_idx,
                   calls, search_calls, segments, polylines, result>>

\* Lines 85-92: the best segment is routed once more and committed.  A None
\* route makes final_segment_coords[:-1] raise TypeError.
Commit ==
    /\ pc = "decide"
    /\ ~NoSegmentFound(best_next_idx, last_anchor_idx)
    /\ \E resp \in Allowed(last_anchor_idx, best_next_idx) :
         LET final_segment_point == Coord(At(raw_waypoints, best_next_idx))
             final_segment_coords == get_route_via_forward_routing(resp)
         IN
         /\ calls' = calls + 1
         /\ transport' = Shape(resp)
         /\ IF IsRaise(final_segment_coords)
            THEN /\ pc' = "raised"
                 /\ result' = final_segment_coords
                 /\ answers' = Record(best_next_idx, resp)
                 /\ UNCHANGED <<final_route_coords, key_waypoints_coords,
                                key_idx, segments, polylines,
                                last_anchor_idx, accepted>>
            ELSE IF final_segment_coords.none
            THEN /\ pc' = "fault"
                 /\ answers' = Record(best_next_idx, resp)
                 /\ UNCHANGED <<final_route_coords, key_waypoints_coords,
                                key_idx, segments, polylines,
                                last_anchor_idx, result, accepted>>
            ELSE /\ final_route_coords' =
                        final_route_coords \o ButLast(final_segment_coords.route_coords)
                 /\ key_waypoints_coords' =
                        Append(key_waypoints_coords, final_segment_point)
                 /\ key_idx' = Append(key_idx, best_next_idx)
                 /\ segments' = Append(segments, <<last_anchor_idx, best_next_idx>>)
                 /\ polylines' = Append(polylines, final_segment_coords.route_coords)
                 /\ last_anchor_idx' = best_next_idx
                 /\ answers' = Unasked
                 /\ accepted' = {}
                 /\ pc' = "outer"
                 /\ UNCHANGED result
    /\ UNCHANGED <<raw_waypoints, deviation_threshold, engine,
                   lower_bound_idx, upper_bound_idx, probe_step, best_next_idx,
                   search_calls, skipped>>

\* Lines 94-109: the path is closed and the result built.
Finish ==
    /\ pc = "outer"
    /\ ~LoopRuns(last_anchor_idx, total_points)
    /\ LET closed == Append(final_route_coords, Last(key_waypoints_coords))
           final_path == [k \in 1..Len(closed) |-> PointOf(closed[k])]
           key_waypoints == [k \in 1..Len(key_waypoints_coords) |->
                                PointOf(key_waypoints_coords[k])]
       IN
       /\ final_route_coords' = closed
       /\ result' = [success |-> TRUE,
                     waypoints |-> key_waypoints,
                     path |-> final_path,
                     duration |-> 0,
                     reroute_count |-> RerouteCount(key_waypoints)]
    /\ pc' = "done"
    /\ UNCHANGED <<accepted, transport, raw_waypoints, deviation_threshold, engine, answers,
                   key_waypoints_coords, key_idx, last_anchor_idx,
                   lower_bound_idx, upper_bound_idx, probe_step, best_next_idx,
                   calls, search_calls, segments, polylines, skipped>>

Next ==
    \/ Entry
    \/ OuterEnter
    \/ ExpandClamp
    \/ ExpandProbe
    \/ SearchProbe
    \/ SearchExit
    \/ Skip
    \/ Commit
    \/ Finish

Spec == Init /\ [][Next]_vars

\* ---------------------------------------------------------------- claims
Ended == pc \in {"done", "fault"}
Returned == pc = "done"

\* C1: for every raw trace of at least 2 points and every behaviour of the
\* routing engine, the run returns success = true, its first key waypoint is
\* RawTrace[0] and its last key waypoint is RawTrace[len-1].
C1_FirstAndLastWaypoint ==
    (total_points >= 2 /\ Ended) =>
        /\ Returned
        /\ result.success
        /\ result.waypoints[1] = At(raw_waypoints, 0)
        /\ Last(result.waypoints) = Last(raw_waypoints)

\* What holds of C1 in every returned result: the first key waypoint.
C1_FirstWaypointOnly ==
    (total_points >= 2 /\ Returned) =>
        result.success /\ result.waypoints[1] = At(raw_waypoints, 0)

\* C2: at every point of a run the raw indices of the key waypoints collected so
\* far are strictly increasing (no raw index appears twice), and each key
\* waypoint is the raw fix at its index.
C2_KeyIndicesIncrease ==
    /\ Len(key_idx) = Len(key_waypoints_coords)
    /\ \A k \in 1..Len(key_idx) :
          /\ key_idx[k] \in 0..(total_points - 1)
          /\ key_waypoints_coords[k] = Coord(At(raw_waypoints, key_idx[k]))
    /\ \A k \in 1..(Len(key_idx) - 1) : key_idx[k] < key_idx[k + 1]

C2_Witness == Len(key_idx) >= 3 /\ skipped # {}

\* C3: a raw trace of fewer than 2 points returns exactly
\* {success: false, error: "Need at least 2 waypoints"} and no routing call is
\* ever issued.
C3_TooShortFailsFast ==
    (total_points < 2) =>
        /\ calls = 0
        /\ pc \in {"entry", "done"}
        /\ Returned =>
              /\ DOMAIN result = {"success", "error"}
              /\ result.success = FALSE
              /\ result.error = "Need at least 2 waypoints"

C3_Witness == total_points = 1 /\ Returned /\ result.success = FALSE

\* C4: for every trace of at least 2 points, whichever routing calls answer with
\* a non-success status (expansion, binary search or commit, each call on its
\* own), the run never ends in a fault and returns success = true once the
\* anchor has reached the last index.
C4_NeverFaults ==
    (total_points >= 2) =>
        /\ pc # "fault"
        /\ Returned => result.success

\* C5: for every trace of n >= 2 points and every outcome of the probes the
\* anchor never exceeds n-1 and the outer loop ends with anchor = n-1.
C5_LoopEndsAtLastIndex ==
    (total_points >= 2) =>
        /\ last_anchor_idx <= total_points - 1
        /\ Ended => last_anchor_idx = total_points - 1

\* C5, the part about each step: the anchor never decreases; a skip adds
\* exactly 1 and a commit moves it to best_next_idx > anchor.
C5_AnchorOnlyAdvances ==
    [][/\ last_anchor_idx' >= last_anchor_idx
       /\ (pc = "decide" /\ pc' = "outer") =>
             /\ last_anchor_idx' > last_anchor_idx
             /\ (skipped' # skipped) => last_anchor_idx' = last_anchor_idx + 1
             /\ (segments' # segments) =>
                   last_anchor_idx' = best_next_idx /\ best_next_idx > last_anchor_idx
      ]_vars

\* The answers recorded for the current anchor, and whether each was accepted.
Asked == {j \in 0..(MaxLen - 1) : answers[j] # NoAnswer}
AcceptedAnswer(j) ==
    Accepted(get_route_via_forward_routing(answers[j]), last_anchor_idx, j)
\* Every answer given from the current anchor agrees with the boundary B.
MonotoneUpTo(B) ==
    \A j \in Asked : AcceptedAnswer(j) <=> (last_anchor_idx < j /\ j <= B)

\* C6: with an engine that answers a pair the same way each time, and validity
\* from the anchor monotone with boundary B, expansion followed by binary
\* search chooses exactly B (the anchor itself exactly when B = anchor).  The
\* engine settles a pair only when it is asked, so the index chosen must equal
\* every boundary its answers leave possible.
C6_SearchFindsBoundary ==
    (pc = "decide" /\ engine # "flaky") =>
        \A B \in last_anchor_idx..(total_points - 1) :
            MonotoneUpTo(B) => best_next_idx = B

C6_Witness ==
    /\ pc = "decide"
    /\ engine = "stable"
    /\ \E B \in (last_anchor_idx + 3)..(total_points - 2) :
          MonotoneUpTo(B) /\ best_next_idx = B

\* Every pair routes and every route validates.
AllValid ==
    \/ engine = "valid"
    \/ engine = "deviant" /\ deviation_threshold # DefaultThreshold

FirstAndLast == <<At(raw_waypoints, 0), Last(raw_waypoints)>>

\* C7: when every pair routes and validates, a trace of n >= 2 points collapses
\* to one committed segment: one commit, no skip, keyWaypoints = [first, last]
\* and rerouteCount = 0.
C7_AllValidCollapses ==
    (AllValid /\ total_points >= 2) =>
        /\ pc # "fault"
        /\ skipped = {}
        /\ Len(segments) <= 1
        /\ Returned =>
              /\ segments = << <<0, total_points - 1>> >>
              /\ result.waypoints = FirstAndLast
              /\ result.reroute_count = 0

C7_Witness ==
    AllValid /\ total_points >= 6 /\ Returned /\ Len(segments) = 1

\* C8: on a 5-point trace where every probed segment routes and validates,
\* expansion and binary search reach index 4 with at most
\* ceil(log2(5)) + 1 = 4 routing calls before the commit step, and then one
\* segment is committed, keyWaypoints = [first, last], rerouteCount = 0.
C8_FivePointsFourCalls ==
    (AllValid /\ total_points = 5) =>
        /\ search_calls <= 4
        /\ pc = "decide" => best_next_idx = 4
        /\ Returned =>
              /\ segments = << <<0, 4>> >>
              /\ result.waypoints = FirstAndLast
              /\ result.reroute_count = 0

C8_Witness ==
    AllValid /\ total_points = 5 /\ Returned /\ search_calls = 4 /\ calls = 5

\* Raw index i is an endpoint of, or lies inside, a committed segment.
Covered(i) == \E k \in 1..Len(segments) : segments[k][1] <= i /\ i <= segments[k][2]

\* C9: when no pair containing raw index 2 routes and every other pair routes
\* and validates (n >= 4), the run skips past index 2, never makes RawTrace[2]
\* a key waypoint, returns success = true, and the committed segments cover
\* every raw index other than 2.
C9_UnroutablePointSkipped ==
    (engine = "unroutable" /\ total_points >= 4) =>
        /\ pc # "fault"
        /\ \A k \in 1..Len(key_idx) : key_idx[k] # Unroutable
        /\ Returned =>
              /\ result.success
              /\ Unroutable \in skipped
              /\ \A i \in (0..(total_points - 1)) \ {Unroutable} : Covered(i)

\* What holds of C9 on traces of at least 5 points.
C9_FromFivePoints ==
    (engine = "unroutable" /\ total_points >= 5) =>
        /\ pc # "fault"
        /\ \A k \in 1..Len(key_idx) : key_idx[k] # Unroutable
        /\ Returned =>
              /\ result.success
              /\ Unroutable \in skipped
              /\ \A i \in (0..(total_points - 1)) \ {Unroutable} : Covered(i)

\* C10: in a 6-point trace whose 4th fix deviates beyond the threshold from
\* every route spanning it, while every other segment routes and validates,
\* the result has an interior key waypoint at a raw index no greater than the
\* deviating fix's, and rerouteCount >= 1.
C10_DeviantFixForcesWaypoint ==
    (engine = "deviant" /\ deviation_threshold = DefaultThreshold
        /\ total_points = 6) =>
        /\ pc # "fault"
        /\ Returned =>
              /\ \E k \in 2..(Len(key_idx) - 1) :
                    /\ key_idx[k] <= Deviant
                    /\ result.waypoints[k] = At(raw_waypoints, key_idx[k])
              /\ result.reroute_count >= 1

C10_Witness ==
    /\ engine = "deviant"
    /\ deviation_threshold = DefaultThreshold
    /\ total_points = 6
    /\ Returned
    /\ key_idx = <<0, Deviant, 5>>

\* C11: in every successful result rerouteCount = len(keyWaypoints) - 2, and
\* for every trace of at least 3 points, whatever the engine does,
\* rerouteCount >= 0.
C11_RerouteCountNonNegative ==
    (Returned /\ result.success) =>
        /\ result.reroute_count = Len(result.waypoints) - 2
        /\ total_points >= 3 => result.reroute_count >= 0

\* What holds of C11 in every successful result: the arithmetic, and
\* rerouteCount >= -1.
C11_RerouteCountFormula ==
    (Returned /\ result.success) =>
        /\ result.reroute_count = Len(result.waypoints) - 2
        /\ result.reroute_count >= -1

\* The committed polylines, each with its last point dropped, one after another.
RECURSIVE DroppedConcat(_)
DroppedConcat(polys) ==
    IF polys = <<>>
    THEN <<>>
    ELSE DroppedConcat(SubSeq(polys, 1, Len(polys) - 1))
            \o SubSeq(Last(polys), 1, Len(Last(polys)) - 1)

\* The dense path is the committed polylines without their last points,
\* closed by one point equal to the last key waypoint.
PathIsConcatenation ==
    LET body == DroppedConcat(polylines) IN
    /\ Len(result.path) = Len(body) + 1
    /\ \A k \in 1..Len(body) : result.path[k] = PointOf(body[k])
    /\ Last(result.path) = Last(result.waypoints)

\* C12: in every successful result the dense path is the concatenation, in
\* commit order, of each committed polyline with its last point dropped,
\* followed by one closing point equal to the last key waypoint; and of two
\* segments that follow each other in the path the second starts at the raw
\* point where the first ended.
C12_PathJoinsSegments ==
    (Returned /\ result.success) =>
        /\ PathIsConcatenation
        /\ \A k \in 1..(Len(segments) - 1) : segments[k + 1][1] = segments[k][2]

\* What holds of C12 in every successful result: the concatenation.
C12_PathIsConcatenation ==
    (Returned /\ result.success) => PathIsConcatenation

MalformedShapes == {"unsupported type", "not json", "no status", "no geometry"}

\* C13: a transport response that does not have the expected shape is never
\* handled as "no route found": the call that receives it ends the run with an
\* exception, which is not the None returned for a non-"Ok" status, and the
\* search window, the best index, the anchor, the key waypoints and the path
\* are left as they were (no narrowing, no skip); nothing runs afterwards.
C13_MalformedResponseIsFatal ==
    [][/\ (calls' # calls /\ transport' \in MalformedShapes) =>
             /\ pc' = "raised"
             /\ IsRaise(result')
             /\ result' # None
             /\ result'.raised \in {"TypeError", "JSONDecodeError", "KeyError"}
             /\ UNCHANGED <<lower_bound_idx, upper_bound_idx, best_next_idx,
                            last_anchor_idx, skipped, key_waypoints_coords,
                            final_route_coords>>
       /\ pc = "raised" => pc' = "raised"
      ]_vars

C13_Witness ==
    /\ pc = "raised"
    /\ transport = "no status"
    /\ lower_bound_idx > last_anchor_idx
    /\ upper_bound_idx > lower_bound_idx
    /\ segments # <<>>

\* The first expansion probe, anchor -> anchor+1, was rejected: no probe was
\* accepted (the step was never doubled, the lower bound never moved) and
\* the expansion stopped at anchor+1; a stable engine has that answer on
\* record.
FirstProbeFailed ==
    /\ probe_step = 1
    /\ lower_bound_idx = last_anchor_idx
    /\ upper_bound_idx = last_anchor_idx + 1
    /\ engine # "flaky" =>
          /\ (last_anchor_idx + 1) \in Asked
          /\ ~AcceptedAnswer(last_anchor_idx + 1)

\* C14: when expansion and binary search leave best_next_idx equal to the
\* anchor, the iteration moves the anchor by exactly 1, leaves keyWaypoints
\* and path unchanged and issues no routing call; and a skip is taken only
\* when the first expansion probe failed to route or validate.
C14_RecoverStep ==
    [][/\ (pc = "decide" /\ best_next_idx = last_anchor_idx) =>
             /\ last_anchor_idx' = last_anchor_idx + 1
             /\ skipped' = skipped \cup {last_anchor_idx}
             /\ pc' = "outer"
             /\ UNCHANGED <<key_waypoints_coords, key_idx, final_route_coords,
                            segments, polylines, calls>>
       /\ (skipped' # skipped) =>
             /\ pc = "decide"
             /\ best_next_idx = last_anchor_idx
             /\ FirstProbeFailed
      ]_vars

C14_Witness ==
    /\ pc = "outer"
    /\ (last_anchor_idx - 1) \in skipped
    /\ Len(key_idx) >= 2
    /\ final_route_coords # <<>>

\* C15: every committed segment anchor -> best_next_idx was probed and accepted
\* earlier in the same outer iteration (some call for exactly that pair
\* returned a route from which no raw fix strictly between them deviates beyond
\* the threshold), whatever the validity pattern; with an engine that answers
\* a pair the same way each time, the answer on record for the committed pair
\* is that accepted route.
C15_CommittedSegmentWasAccepted ==
    [][(segments' # segments) =>
          /\ segments' = Append(segments, <<last_anchor_idx, best_next_idx>>)
          /\ best_next_idx \in accepted
          /\ engine # "flaky" =>
                /\ best_next_idx \in Asked
                /\ Truthy(get_route_via_forward_routing(answers[best_next_idx]))
                /\ \A i \in Intermediate(last_anchor_idx, best_next_idx) :
                      answers[best_next_idx].dist[i] <= deviation_threshold
                /\ Last(polylines') = answers[best_next_idx].geometry
      ]_vars

C15_Witness ==
    /\ pc = "outer"
    /\ engine = "stable"
    /\ deviation_threshold = DefaultThreshold
    /\ Len(segments) >= 2
    /\ Last(segments)[2] - Last(segments)[1] >= 2
    /\ Last(segments)[2] < total_points - 1

\* C16: the guard mid <= anchor ends the binary search only from the window
\* lower_bound_idx = anchor, upper_bound_idx = anchor + 1 left by a failed first
\* expansion probe; once an expansion probe has succeeded lower_bound_idx stays
\* above the anchor during the search, the guard cannot fire, and the search
\* leaves the loop only with lower_bound_idx > upper_bound_idx.
GuardFires ==
    /\ pc = "search"
    /\ SearchOpen(lower_bound_idx, upper_bound_idx)
    /\ Degenerate(MidIdx(lower_bound_idx, upper_bound_idx), last_anchor_idx)

C16_GuardOnlyAfterFailedFirstProbe ==
    [][/\ GuardFires =>
             /\ lower_bound_idx = last_anchor_idx
             /\ upper_bound_idx = last_anchor_idx + 1
             /\ probe_step = 1
             /\ accepted = {}
       /\ (pc = "search" /\ probe_step > 1) =>
             /\ lower_bound_idx > last_anchor_idx
             /\ ~GuardFires
             /\ pc' = "decide" => lower_bound_idx > upper_bound_idx
             /\ pc' = "search" => lower_bound_idx' > last_anchor_idx
      ]_vars

C16_Witness ==
    /\ pc = "decide"
    /\ probe_step > 1
    /\ lower_bound_idx > upper_bound_idx
    /\ best_next_idx > last_anchor_idx + 1
    /\ search_calls >= 4
    /\ skipped # {}

\* C17: with an engine that answers a pair the same way on every call, the
\* routing call of the commit step never fails: its pair already returned a
\* non-empty route in the same iteration, so the polyline whose last point is
\* dropped and appended to the path is defined.
C17_CommitCallNeverFails ==
    [][(engine # "flaky") =>
          /\ pc' # "fault"
          /\ (pc = "decide" /\ calls' # calls) =>
                /\ best_next_idx \in Asked
                /\ answers[best_next_idx] \in Routes(last_anchor_idx, best_next_idx,
                                                    Dists(last_anchor_idx, best_next_idx))
                /\ transport' = "well formed"
                /\ pc' = "outer"
                /\ Len(polylines') = Len(polylines) + 1
                /\ Last(polylines') # <<>>
                /\ final_route_coords' =
                       final_route_coords \o ButLast(Last(polylines'))
      ]_vars

C17_Witness ==
    /\ engine = "stable"
    /\ pc = "outer"
    /\ Len(polylines) >= 2
    /\ \A k \in 1..Len(polylines) : polylines[k] # <<>>
    /\ calls >= 6
    /\ skipped # {}

====
